---- MODULE Spec2Model ----
(***************************************************************************)
(* A model of the weld-mapping editor of frontend/src/App.js: the view     *)
(* state (zoomLevel, panOffset), the annotation store (placedSymbols),     *)
(* the line-drawing and panning interaction, and the handlers that change  *)
(* them.  Each React event handler is one action; a state is the component *)
(* state between two events.                                               *)
(*                                                                         *)
(* Numbers.  JavaScript numbers are modelled as exact rationals <<n, d>>   *)
(* in lowest terms with d > 0, so the arithmetic of the handlers is the    *)
(* real arithmetic the doubles approximate.  Math.atan2 / Math.cos /       *)
(* Math.sin are modelled by the identity cos(atan2(dy, dx)) = dx / len,    *)
(* exact whenever len is rational and rounded down to 1/TrigRes otherwise. *)
(***************************************************************************)
EXTENDS Integers, Naturals, Sequences, FiniteSets, TLC

(***************************************************************************)
(* Bounds of the model.                                                    *)
(***************************************************************************)
\* the most annotations the store holds
MaxSymbols == 2
\* the last value of the millisecond clock read by Date.now()
MaxClock == 2
\* the most changes of the surroundings of a gesture (a clock tick, a zoom, a
\* pan move, a change of tool or a page turn) in one behaviour of the editor
MaxChanges == 1
\* the most zoom requests in one behaviour of the zoom controls
MaxZoomSteps == 5
\* the most zoom requests and pan moves in one behaviour of the pan gesture
MaxPanSteps == 3
\* the most projects in the list of saved projects
MaxProjects == 2
\* the most counted changes in one behaviour of the project dialogs
MaxProjectSteps == 1
\* the most page images an upload returns
MaxPages == 2
\* the resolution of an irrational square root
TrigRes == 4

(***************************************************************************)
(* Rational arithmetic.                                                    *)
(***************************************************************************)
Abs(a) == IF a < 0 THEN -a ELSE a

RECURSIVE GCD(_, _)
GCD(a, b) == IF b = 0 THEN a ELSE GCD(b, a % b)

LCM(a, b) == (a \div GCD(a, b)) * b

Rat(n, d) ==
  LET s == IF d < 0 THEN -1 ELSE 1
      g == GCD(Abs(n), Abs(d))
  IN  <<(s * n) \div g, (s * d) \div g>>

RInt(i) == <<i, 1>>

RNeg(a) == <<-a[1], a[2]>>

RAdd(a, b) ==
  LET l == LCM(a[2], b[2])
  IN  Rat(a[1] * (l \div a[2]) + b[1] * (l \div b[2]), l)

RSub(a, b) == RAdd(a, RNeg(b))

RMul(a, b) ==
  LET g1 == GCD(Abs(a[1]), b[2])
      g2 == GCD(Abs(b[1]), a[2])
  IN  Rat((a[1] \div g1) * (b[1] \div g2), (a[2] \div g2) * (b[2] \div g1))

RDiv(a, b) == RMul(a, IF b[1] < 0 THEN <<-b[2], -b[1]>> ELSE <<b[2], b[1]>>)

RLess(a, b) ==
  LET l == LCM(a[2], b[2])
  IN  a[1] * (l \div a[2]) < b[1] * (l \div b[2])

RLeq(a, b) == ~RLess(b, a)

RAbs(a) == <<Abs(a[1]), a[2]>>

\* Math.min, Math.max
RMin(a, b) == IF RLess(b, a) THEN b ELSE a
RMax(a, b) == IF RLess(a, b) THEN b ELSE a

\* the largest r in lo..hi with r * r <= n
RECURSIVE ISqrtIn(_, _, _)
ISqrtIn(n, lo, hi) ==
  IF lo = hi THEN lo
  ELSE LET mid == (lo + hi + 1) \div 2
       IN  IF mid * mid <= n THEN ISqrtIn(n, mid, hi) ELSE ISqrtIn(n, lo, mid - 1)

ISqrt(n) == ISqrtIn(n, 0, IF n < 46340 THEN n ELSE 46340)

\* Math.sqrt of a natural number: exact on a perfect square
Root(n) ==
  LET r == ISqrt(n)
  IN  IF r * r = n THEN RInt(r) ELSE Rat(ISqrt(n * TrigRes * TrigRes), TrigRes)

Pt(x, y) == [x |-> x, y |-> y]

\* a screen point given in whole pixels
Px(x, y) == Pt(RInt(x), RInt(y))

\* the square of the distance of two points
DistSq(p, q) ==
  LET dx == RSub(p.x, q.x)
      dy == RSub(p.y, q.y)
  IN  RAdd(RMul(dx, dx), RMul(dy, dy))

(***************************************************************************)
(* The values of the program.                                              *)
(***************************************************************************)
\* JavaScript's null for a point, a line or a preview
Null == [null |-> TRUE]

\* selectedSymbolId = null; Date.now() is never 0
NoId == 0

SymbolTypes == {"field_weld", "shop_weld", "pipe_section", "pipe_support", "flange_joint"}

ZoomMin == <<1, 5>>
ZoomMax == <<5, 1>>
ZoomInFactor == <<3, 2>>
ButtonMinusFactor == <<4, 5>>
ButtonPlusFactor == <<6, 5>>
WheelDownFactor == <<9, 10>>
WheelUpFactor == <<11, 10>>

\* the screen points (relative to the canvas) of the pointer events
RawPoints == {Px(0, 0), Px(8, 6), Px(40, 30)}

VARIABLES
  selectedFile,        \* a PDF file is selected
  isProcessing,        \* an upload request is in flight
  pdfImages,           \* the number of page images
  currentPage,
  error,               \* an error message is set
  placedSymbols,       \* the annotation store, a sequence of records
  selectedSymbolType,
  isDrawingMode,       \* the remove mode
  zoomLevel,
  panOffset,
  isPanning,
  lastPanPoint,
  selectedSymbolId,
  isMouseOverPDF,
  isDrawingLine,
  lineStart,
  currentLineEnd,
  previewLine,
  now,                 \* the value Date.now() returns
  savedProjects,       \* the saved projects, a sequence of records
  exported,            \* the annotations of the last export, in output space
  lastPanScreen,       \* the screen point of the last pan event
  pointer,             \* where the browser is in a press, release, click sequence
  changes              \* the counted changes made so far

vars ==
  <<selectedFile, isProcessing, pdfImages, currentPage, error, placedSymbols,
    selectedSymbolType, isDrawingMode, zoomLevel, panOffset, isPanning,
    lastPanPoint, selectedSymbolId, isMouseOverPDF, isDrawingLine, lineStart,
    currentLineEnd, previewLine, now, savedProjects, exported, lastPanScreen,
    pointer, changes>>

uploadVars == <<selectedFile, isProcessing, pdfImages, error>>
storeVars == <<placedSymbols, selectedSymbolId>>
toolVars == <<selectedSymbolType, isDrawingMode>>
zoomVars == <<zoomLevel, isMouseOverPDF>>
panVars == <<panOffset, isPanning, lastPanPoint, lastPanScreen>>
lineVars == <<isDrawingLine, lineStart, currentLineEnd, previewLine>>

Init ==
  /\ selectedFile = FALSE
  /\ isProcessing = FALSE
  /\ pdfImages = 0
  /\ currentPage = 0
  /\ error = FALSE
  /\ placedSymbols = <<>>
  /\ selectedSymbolType = "field_weld"
  /\ isDrawingMode = FALSE
  /\ zoomLevel = RInt(1)
  /\ panOffset = Px(0, 0)
  /\ isPanning = FALSE
  /\ lastPanPoint = Px(0, 0)
  /\ selectedSymbolId = NoId
  /\ isMouseOverPDF = FALSE
  /\ isDrawingLine = FALSE
  /\ lineStart = Null
  /\ currentLineEnd = Null
  /\ previewLine = Null
  /\ now = 1
  /\ savedProjects = <<>>
  /\ exported = <<>>
  /\ lastPanScreen = Px(0, 0)
  /\ pointer = [stage |-> "up", raw |-> Px(0, 0), ctrl |-> FALSE, committed |-> FALSE,
                pressed |-> Px(0, 0), idlePress |-> FALSE]
  /\ changes = 0

\* the editor (canvas, palette, header tools) is rendered
EditorShown == pdfImages > 0

(***************************************************************************)
(* The clock.                                                              *)
(***************************************************************************)
Tick ==
  /\ now < MaxClock
  /\ now' = now + 1
  /\ UNCHANGED <<savedProjects, uploadVars, currentPage, storeVars, toolVars, zoomVars, panVars,
                 lineVars>>

(***************************************************************************)
(* File selection and upload.                                              *)
(***************************************************************************)
handleFileSelect(valid) ==
  /\ IF valid
       THEN selectedFile' = TRUE /\ error' = FALSE
       ELSE error' = TRUE /\ UNCHANGED selectedFile
  /\ UNCHANGED <<savedProjects, isProcessing, pdfImages, currentPage, storeVars, toolVars, zoomVars,
                 panVars, lineVars, now>>

\* handleUpload up to its await
handleUpload ==
  /\ selectedFile /\ pdfImages = 0 /\ ~isProcessing
  /\ isProcessing' = TRUE
  /\ error' = FALSE
  /\ UNCHANGED <<savedProjects, selectedFile, pdfImages, currentPage, storeVars, toolVars, zoomVars,
                 panVars, lineVars, now>>

\* handleUpload after its await: the response is OK and carries images
handleUploadOk(images) ==
  /\ isProcessing
  /\ pdfImages' = images
  /\ currentPage' = 0
  /\ placedSymbols' = <<>>
  /\ selectedSymbolId' = NoId
  /\ zoomLevel' = RInt(1)
  /\ panOffset' = Px(0, 0)
  /\ isProcessing' = FALSE
  /\ UNCHANGED <<savedProjects, selectedFile, error, toolVars, isMouseOverPDF, isPanning, lastPanPoint,
                 lastPanScreen, lineVars, now>>

\* a faulty failure path without the finally block: C30_UploadFailure must
\* reject it
handleUploadFailedStillProcessing ==
  /\ isProcessing
  /\ error' = TRUE
  /\ UNCHANGED <<savedProjects, selectedFile, isProcessing, pdfImages, currentPage, storeVars,
                 toolVars, zoomVars, panVars, lineVars, now>>

\* handleUpload after its await: fetch throws or the response is not OK
handleUploadFailed ==
  /\ isProcessing
  /\ error' = TRUE
  /\ isProcessing' = FALSE
  /\ UNCHANGED <<savedProjects, selectedFile, pdfImages, currentPage, storeVars, toolVars, zoomVars,
                 panVars, lineVars, now>>

(***************************************************************************)
(* Zoom.                                                                   *)
(***************************************************************************)
viewFrame ==
  UNCHANGED <<uploadVars, currentPage, storeVars, toolVars, lineVars, now,
              savedProjects>>

\* a faulty zoomIn that forgets Math.min: C8_ZoomClamped must reject it
zoomInUnclamped ==
  /\ zoomLevel' = RMul(zoomLevel, ZoomInFactor)
  /\ UNCHANGED <<isMouseOverPDF, panVars>>
  /\ viewFrame

zoomIn ==
  /\ zoomLevel' = RMin(RMul(zoomLevel, ZoomInFactor), ZoomMax)
  /\ UNCHANGED <<isMouseOverPDF, panVars>>
  /\ viewFrame

zoomOut ==
  /\ zoomLevel' = RMax(RDiv(zoomLevel, ZoomInFactor), ZoomMin)
  /\ UNCHANGED <<isMouseOverPDF, panVars>>
  /\ viewFrame

zoomButtonMinus ==
  /\ EditorShown
  /\ zoomLevel' = RMax(RMul(zoomLevel, ButtonMinusFactor), ZoomMin)
  /\ UNCHANGED <<isMouseOverPDF, panVars>>
  /\ viewFrame

zoomButtonPlus ==
  /\ EditorShown
  /\ zoomLevel' = RMin(RMul(zoomLevel, ButtonPlusFactor), ZoomMax)
  /\ UNCHANGED <<isMouseOverPDF, panVars>>
  /\ viewFrame

\* a faulty reset that also drops the selection: C17_ViewFrame must reject it
resetZoomDeselecting ==
  /\ EditorShown
  /\ zoomLevel' = RInt(1)
  /\ panOffset' = Px(0, 0)
  /\ selectedSymbolId' = NoId
  /\ UNCHANGED <<isMouseOverPDF, isPanning, lastPanPoint, lastPanScreen>>
  /\ UNCHANGED <<uploadVars, currentPage, placedSymbols, toolVars, lineVars, now,
                 savedProjects>>

resetZoom ==
  /\ EditorShown
  /\ zoomLevel' = RInt(1)
  /\ panOffset' = Px(0, 0)
  /\ UNCHANGED <<isMouseOverPDF, isPanning, lastPanPoint, lastPanScreen>>
  /\ viewFrame

\* a faulty handleWheel without the isMouseOverPDF test: C18_WheelOverPDFOnly
\* must reject it
handleWheelAnywhere(deltaPositive) ==
  /\ zoomLevel' =
       RMin(RMax(RMul(zoomLevel, IF deltaPositive THEN WheelDownFactor ELSE WheelUpFactor),
                 ZoomMin), ZoomMax)
  /\ UNCHANGED <<isMouseOverPDF, panVars>>
  /\ viewFrame

\* a wheel event over the PDF area; deltaY > 0 zooms out
handleWheel(deltaPositive) ==
  /\ isMouseOverPDF
  /\ zoomLevel' =
       RMin(RMax(RMul(zoomLevel, IF deltaPositive THEN WheelDownFactor ELSE WheelUpFactor),
                 ZoomMin), ZoomMax)
  /\ UNCHANGED <<isMouseOverPDF, panVars>>
  /\ viewFrame

\* a wheel event elsewhere: the page scrolls
handleWheelOutside ==
  /\ ~isMouseOverPDF
  /\ UNCHANGED <<zoomVars, panVars>>
  /\ viewFrame

handlePDFMouseEnter ==
  /\ EditorShown
  /\ isMouseOverPDF' = TRUE
  /\ UNCHANGED <<zoomLevel, panVars>>
  /\ viewFrame

handlePDFMouseLeave ==
  /\ EditorShown
  /\ isMouseOverPDF' = FALSE
  /\ UNCHANGED <<zoomLevel, panVars>>
  /\ viewFrame

(***************************************************************************)
(* Pointer coordinates.                                                    *)
(***************************************************************************)
\* a faulty conversion that subtracts the pan after the division:
\* C10_RoundTrip must reject it
getCanvasCoordinatesPanLast(raw) ==
  Pt(RSub(RDiv(raw.x, zoomLevel), panOffset.x),
     RSub(RDiv(raw.y, zoomLevel), panOffset.y))

\* the logical point of a pointer event at screen point raw
getCanvasCoordinates(raw) ==
  Pt(RDiv(RSub(raw.x, panOffset.x), zoomLevel),
     RDiv(RSub(raw.y, panOffset.y), zoomLevel))

\* the screen point at which a logical point is rendered
toScreen(p) ==
  Pt(RAdd(RMul(p.x, zoomLevel), panOffset.x),
     RAdd(RMul(p.y, zoomLevel), panOffset.y))

(***************************************************************************)
(* Shape geometry.                                                         *)
(***************************************************************************)
\* 35 * 0.8
uniformSize == RInt(28)

\* <<cos, sin>> of Math.atan2(dy, dx); atan2(0, 0) = 0
Direction(dx, dy) ==
  LET l == LCM(dx[2], dy[2])
      a == dx[1] * (l \div dx[2])
      b == dy[1] * (l \div dy[2])
      g == GCD(Abs(a), Abs(b))
  IN  IF g = 0 THEN <<RInt(1), RInt(0)>>
      ELSE LET len == Root((a \div g) * (a \div g) + (b \div g) * (b \div g))
           IN  <<RDiv(RInt(a \div g), len), RDiv(RInt(b \div g), len)>>

\* a faulty edge choice that takes the side edge at exactly 45 degrees:
\* C26_PipeEdge must reject it
isMoreHorizontalInclusive(dx, dy) == RLeq(RAbs(dy), RAbs(dx))

\* absAngle < Math.PI/4 || absAngle > 3*Math.PI/4, for angle = atan2(dy, dx)
isMoreHorizontal(dx, dy) == RLess(RAbs(dy), RAbs(dx))

rectWidth == RMul(uniformSize, <<7, 5>>)
rectHeight == RMul(uniformSize, <<7, 10>>)
hexRadius == RMul(RDiv(uniformSize, RInt(2)), <<7, 10>>)
circleRadius == RMul(uniformSize, <<7, 20>>)
diamondRadius == RDiv(uniformSize, RInt(2))

\* the offset of the connection point from the shape's centre
shapeOffset(dx, dy, shapeType) ==
  LET dir == Direction(dx, dy)
      radial(r) == Pt(RNeg(RMul(dir[1], r)), RNeg(RMul(dir[2], r)))
      half(v) == RDiv(v, RInt(2))
  IN  CASE shapeType \in {"pipe_section", "pipe_support"} ->
             IF isMoreHorizontal(dx, dy)
               THEN Pt(IF dx[1] > 0 THEN RNeg(half(rectWidth)) ELSE half(rectWidth), RInt(0))
               ELSE Pt(RInt(0), IF dy[1] > 0 THEN RNeg(half(rectHeight)) ELSE half(rectHeight))
        [] shapeType = "flange_joint" -> radial(hexRadius)
        [] shapeType = "shop_weld" -> radial(circleRadius)
        [] OTHER -> radial(diamondRadius)

getShapeConnectionPoint(start, end, shapeType) ==
  LET off == shapeOffset(RSub(end.x, start.x), RSub(end.y, start.y), shapeType)
  IN  Pt(RAdd(end.x, off.x), RAdd(end.y, off.y))

(***************************************************************************)
(* The shapes as renderShape draws them, in logical units (the screen      *)
(* sizes divided by zoomLevel), centred on the symbol's position.          *)
(***************************************************************************)
RSq(a) == RMul(a, a)

\* | a - sqrt(sq) | <= t, for a, t, sq >= 0
WithinOfRoot(a, t, sq) ==
  /\ RLeq(a, t) \/ RLeq(RSq(RSub(a, t)), sq)
  /\ RLeq(sq, RSq(RAdd(a, t)))

\* strokeWidth = 2 * zoomLevel on the screen; the stroke is centred on its path
halfStroke == RInt(1)

\* the diamond's polygon: vertices (uniformSize - uniformSize * 0.8) / 2 inside
\* the box, so its half diagonal is 0.4 * uniformSize
diamondHalfDiagonal == RMul(uniformSize, <<2, 5>>)

\* the circle's r = uniformSize * 0.35
radius == RMul(uniformSize, <<7, 20>>)

\* blueWidth and redWidth, blueHeight and redHeight: the size of the svg box;
\* the rect is inset by strokeWidth / 2, so its stroke fills the box's border
blueWidth == RMul(uniformSize, <<7, 5>>)
blueHeight == RMul(uniformSize, <<7, 10>>)

\* the hexagon's vertices: uniformSize / 2 * 0.7 from the centre, at 0, 60, ...
hexVertexRadius == RMul(RDiv(uniformSize, RInt(2)), <<7, 10>>)

\* a point at distances ax, ay from the centre along the axes is on the stroke
onDiamond(ax, ay) ==
  RLeq(RSq(RSub(RAdd(ax, ay), diamondHalfDiagonal)), RMul(RInt(2), RSq(halfStroke)))

onCircle(ax, ay) ==
  LET d2 == RAdd(RSq(ax), RSq(ay))
  IN  /\ RLeq(RSq(RSub(radius, halfStroke)), d2)
      /\ RLeq(d2, RSq(RAdd(radius, halfStroke)))

onRect(ax, ay) ==
  LET w == RDiv(blueWidth, RInt(2))
      h == RDiv(blueHeight, RInt(2))
      stroke == RMul(RInt(2), halfStroke)
  IN  /\ RLeq(ax, w) /\ RLeq(ay, h)
      /\ RLeq(RSub(w, stroke), ax) \/ RLeq(RSub(h, stroke), ay)

\* the flat edges at height sqrt(3)/2 * r for ax <= r/2, the slanted edges
\* ay = sqrt(3) * (r - ax) for r/2 <= ax <= r, and the join at the vertex
onHexagon(ax, ay) ==
  LET r == hexVertexRadius
      h == RDiv(r, RInt(2))
  IN  \/ RLeq(ax, h) /\ WithinOfRoot(ay, halfStroke, RMul(<<3, 4>>, RSq(r)))
      \/ /\ RLeq(h, ax) /\ RLeq(ax, r)
         /\ WithinOfRoot(ay, RMul(RInt(2), halfStroke), RMul(RInt(3), RSq(RSub(r, ax))))
      \/ RLeq(r, ax) /\ RLeq(RSub(ax, r), halfStroke) /\ RLeq(ay, halfStroke)

\* the point q is on the outline drawn for a symbol of the kind at centre;
\* renderShape draws nothing for a kind it does not know
onOutline(shapeType, centre, q) ==
  LET ax == RAbs(RSub(q.x, centre.x))
      ay == RAbs(RSub(q.y, centre.y))
  IN  CASE shapeType = "field_weld" -> onDiamond(ax, ay)
        [] shapeType = "shop_weld" -> onCircle(ax, ay)
        [] shapeType \in {"pipe_section", "pipe_support"} -> onRect(ax, ay)
        [] shapeType = "flange_joint" -> onHexagon(ax, ay)
        [] OTHER -> FALSE

(***************************************************************************)
(* The annotation store.                                                   *)
(***************************************************************************)
\* a faulty page query that does not filter: C5_PageQuery must reject it
SymbolsOfAnyPage(symbols, page) == symbols

\* the records of a store on one page, in store order
SymbolsOfPage(symbols, page) == SelectSeq(symbols, LAMBDA s : s.page = page)

currentPageSymbols == SymbolsOfPage(placedSymbols, currentPage)

\* a faulty filter that keeps the record it should remove:
\* C4_RemoveOnlyThatId must reject it
onlyId(symbols, symbolId) == SelectSeq(symbols, LAMBDA s : s.id = symbolId)

\* the store after removeSymbol's filter
withoutId(symbols, symbolId) == SelectSeq(symbols, LAMBDA s : s.id # symbolId)

\* a faulty clear that empties the store: C6_ClearCurrentPageOnly must reject it
withoutAnyPage(symbols, page) == <<>>

\* the store after clearAllSymbols' filter
withoutPage(symbols, page) == SelectSeq(symbols, LAMBDA s : s.page # page)

\* a faulty removal that keeps the selection: C27_SelectionStored must reject it
removeSymbolKeepingSelection(symbolId) ==
  /\ placedSymbols' = withoutId(placedSymbols, symbolId)
  /\ UNCHANGED selectedSymbolId

removeSymbol(symbolId) ==
  /\ placedSymbols' = withoutId(placedSymbols, symbolId)
  /\ selectedSymbolId' = NoId

storeFrame ==
  UNCHANGED <<uploadVars, currentPage, toolVars, zoomVars, panVars, lineVars, now,
              savedProjects>>

\* the "Clear All" button of the side panel
clearAllSymbols ==
  /\ EditorShown
  /\ currentPageSymbols # <<>>
  /\ placedSymbols' = withoutPage(placedSymbols, currentPage)
  /\ selectedSymbolId' = NoId
  /\ storeFrame

\* the remove button of one row of the side panel
removeButton(i) ==
  /\ EditorShown
  /\ i \in DOMAIN currentPageSymbols
  /\ removeSymbol(currentPageSymbols[i].id)
  /\ storeFrame

\* the Select button of one row of the side panel
selectButton(i) ==
  /\ EditorShown
  /\ i \in DOMAIN currentPageSymbols
  /\ selectedSymbolId' = currentPageSymbols[i].id
  /\ UNCHANGED placedSymbols
  /\ storeFrame

Keys == {"Delete", "Backspace", "Escape"}

\* a faulty key handler whose Escape deletes like Delete: C24_Keys must reject it
handleKeyDownEscapeDeletes(key) ==
  /\ IF key \in {"Delete", "Backspace", "Escape"} /\ selectedSymbolId # NoId
       THEN removeSymbol(selectedSymbolId)
       ELSE UNCHANGED storeVars
  /\ storeFrame

handleKeyDown(key) ==
  /\ IF key \in {"Delete", "Backspace"} /\ selectedSymbolId # NoId
       THEN removeSymbol(selectedSymbolId)
       ELSE IF key = "Escape"
              THEN selectedSymbolId' = NoId /\ UNCHANGED placedSymbols
              ELSE UNCHANGED storeVars
  /\ storeFrame

(***************************************************************************)
(* Tools and pages.                                                        *)
(***************************************************************************)
toolFrame ==
  UNCHANGED <<uploadVars, storeVars, zoomVars, panVars, lineVars, now, savedProjects>>

toggleDrawingMode ==
  /\ EditorShown
  /\ isDrawingMode' = ~isDrawingMode
  /\ UNCHANGED <<selectedSymbolType, currentPage>>
  /\ toolFrame

setSelectedSymbolType(type) ==
  /\ EditorShown
  /\ selectedSymbolType' = type
  /\ UNCHANGED <<isDrawingMode, currentPage>>
  /\ toolFrame

previousPage ==
  /\ pdfImages > 1
  /\ currentPage # 0
  /\ currentPage' = IF currentPage - 1 > 0 THEN currentPage - 1 ELSE 0
  /\ UNCHANGED toolVars
  /\ toolFrame

nextPage ==
  /\ pdfImages > 1
  /\ currentPage # pdfImages - 1
  /\ currentPage' = IF currentPage + 1 < pdfImages - 1 THEN currentPage + 1 ELSE pdfImages - 1
  /\ UNCHANGED toolVars
  /\ toolFrame

(***************************************************************************)
(* The canvas: selection, line drawing and panning.                        *)
(***************************************************************************)
\* the click tolerance, squared: distance < 30
ClickTolerance == 30

\* a record without symbolPosition (the old format) is never hit
isHit(symbol, p) ==
  /\ "symbolPosition" \in DOMAIN symbol
  /\ RLess(DistSq(symbol.symbolPosition, p), RInt(ClickTolerance * ClickTolerance))

\* Array.prototype.find: the index of the first record that is hit, 0 if none
findClicked(symbols, p) ==
  LET hits == {i \in DOMAIN symbols : isHit(symbols[i], p)}
  IN  IF hits = {} THEN 0 ELSE CHOOSE i \in hits : \A j \in hits : i <= j

canvasFrame ==
  UNCHANGED <<uploadVars, currentPage, toolVars, zoomVars, now, savedProjects>>

handleCanvasClick(raw, ctrl) ==
  LET p == getCanvasCoordinates(raw)
      clicked == findClicked(currentPageSymbols, p)
  IN  /\ EditorShown
      /\ canvasFrame
      /\ UNCHANGED panVars
      /\ IF ctrl \/ isPanning
           THEN UNCHANGED <<storeVars, lineVars>>
           ELSE IF clicked # 0
             THEN /\ IF isDrawingMode
                       THEN removeSymbol(currentPageSymbols[clicked].id)
                       ELSE /\ selectedSymbolId' = currentPageSymbols[clicked].id
                            /\ UNCHANGED placedSymbols
                  /\ UNCHANGED lineVars
             ELSE IF isDrawingMode
               THEN /\ selectedSymbolId' = NoId
                    /\ UNCHANGED <<placedSymbols, lineVars>>
               ELSE IF ~isDrawingLine
                 THEN /\ isDrawingLine' = TRUE
                      /\ lineStart' = p
                      /\ currentLineEnd' = p
                      /\ previewLine' = [start |-> p, end |-> p]
                      /\ UNCHANGED storeVars
                 ELSE UNCHANGED <<storeVars, lineVars>>

handleMouseDown(raw, ctrl) ==
  /\ EditorShown
  /\ canvasFrame
  /\ IF ctrl
       THEN /\ isPanning' = TRUE
            /\ lastPanPoint' = getCanvasCoordinates(raw)
            /\ lastPanScreen' = raw
       ELSE UNCHANGED <<isPanning, lastPanPoint, lastPanScreen>>
  /\ UNCHANGED <<panOffset, storeVars, lineVars>>

\* a faulty move that restarts the preview at the pointer: C28_LineFields must
\* reject it
handleCanvasMouseMoveRestarting(raw) ==
  LET p == getCanvasCoordinates(raw)
  IN  /\ EditorShown
      /\ canvasFrame
      /\ UNCHANGED storeVars
      /\ IF isPanning
           THEN /\ panOffset' = Pt(RAdd(panOffset.x, RSub(p.x, lastPanPoint.x)),
                                   RAdd(panOffset.y, RSub(p.y, lastPanPoint.y)))
                /\ lastPanPoint' = p
                /\ lastPanScreen' = raw
                /\ UNCHANGED <<isPanning, lineVars>>
           ELSE IF isDrawingLine /\ lineStart # Null
             THEN /\ currentLineEnd' = p
                  /\ previewLine' = [start |-> p, end |-> p]
                  /\ UNCHANGED <<isDrawingLine, lineStart, panVars>>
             ELSE UNCHANGED <<panVars, lineVars>>

handleCanvasMouseMove(raw) ==
  LET p == getCanvasCoordinates(raw)
  IN  /\ EditorShown
      /\ canvasFrame
      /\ UNCHANGED storeVars
      /\ IF isPanning
           THEN /\ panOffset' = Pt(RAdd(panOffset.x, RSub(p.x, lastPanPoint.x)),
                                   RAdd(panOffset.y, RSub(p.y, lastPanPoint.y)))
                /\ lastPanPoint' = p
                /\ lastPanScreen' = raw
                /\ UNCHANGED <<isPanning, lineVars>>
           ELSE IF isDrawingLine /\ lineStart # Null
             THEN /\ currentLineEnd' = p
                  /\ previewLine' = [start |-> lineStart, end |-> p]
                  /\ UNCHANGED <<isDrawingLine, lineStart, panVars>>
             ELSE UNCHANGED <<panVars, lineVars>>

\* lineLength > 10
MinLineLength == 10

\* a faulty threshold, lineLength >= 10: C2_DiscardThreshold must reject it
isLongEnoughInclusive(start, p) ==
  RLeq(RInt(MinLineLength * MinLineLength), DistSq(start, p))

isLongEnough(start, p) == RLess(RInt(MinLineLength * MinLineLength), DistSq(start, p))

\* a faulty commit that ends the line on the symbol's centre:
\* C1_LineEndIsConnectionPoint must reject it
newAnnotationToCentre(start, p) ==
  [id |-> now,
   type |-> selectedSymbolType,
   page |-> currentPage,
   lineStart |-> start,
   lineEnd |-> p,
   symbolPosition |-> p]

newAnnotation(start, p) ==
  [id |-> now,
   type |-> selectedSymbolType,
   page |-> currentPage,
   lineStart |-> start,
   lineEnd |-> getShapeConnectionPoint(start, p, selectedSymbolType),
   symbolPosition |-> p]

\* the release commits an annotation
commits(raw) ==
  /\ ~isPanning
  /\ isDrawingLine
  /\ lineStart # Null
  /\ isLongEnough(lineStart, getCanvasCoordinates(raw))

handleCanvasMouseUp(raw) ==
  LET p == getCanvasCoordinates(raw)
  IN  /\ EditorShown
      /\ canvasFrame
      /\ IF isPanning
           THEN /\ isPanning' = FALSE
                /\ UNCHANGED <<panOffset, lastPanPoint, lastPanScreen, storeVars, lineVars>>
           ELSE IF isDrawingLine /\ lineStart # Null
             THEN /\ placedSymbols' =
                       IF isLongEnough(lineStart, p)
                         THEN Append(placedSymbols, newAnnotation(lineStart, p))
                         ELSE placedSymbols
                  /\ isDrawingLine' = FALSE
                  /\ lineStart' = Null
                  /\ currentLineEnd' = Null
                  /\ previewLine' = Null
                  /\ selectedSymbolId' = NoId
                  /\ UNCHANGED panVars
             ELSE UNCHANGED <<panVars, storeVars, lineVars>>

(***************************************************************************)
(* Projects.                                                               *)
(***************************************************************************)
\* the Save button of the save dialog, with a project name that is not blank
saveProject ==
  /\ EditorShown
  /\ savedProjects' = Append(savedProjects,
                             [id |-> now,
                              symbols |-> placedSymbols,
                              pdfImages |-> pdfImages])
  /\ UNCHANGED <<uploadVars, currentPage, storeVars, toolVars, zoomVars, panVars,
                 lineVars, now>>

\* savedProjects.find(p => p.id.toString() === projectId): the index of the
\* first project with the id, 0 if none
findProject(projects, projectId) ==
  LET found == {i \in DOMAIN projects : projects[i].id = projectId}
  IN  IF found = {} THEN 0 ELSE CHOOSE i \in found : \A j \in found : i <= j

\* a faulty load that merges the project into the store:
\* C11_LoadResets must reject it
loadProjectMerging(projectId) ==
  /\ EditorShown
  /\ LET i == findProject(savedProjects, projectId)
     IN  IF i # 0
           THEN /\ placedSymbols' = placedSymbols \o savedProjects[i].symbols
                /\ pdfImages' = savedProjects[i].pdfImages
                /\ currentPage' = 0
                /\ selectedSymbolId' = NoId
                /\ zoomLevel' = RInt(1)
                /\ panOffset' = Px(0, 0)
           ELSE UNCHANGED <<placedSymbols, pdfImages, currentPage, selectedSymbolId,
                            zoomLevel, panOffset>>
  /\ UNCHANGED <<selectedFile, isProcessing, error, toolVars, isMouseOverPDF, isPanning,
                 lastPanPoint, lastPanScreen, lineVars, now, savedProjects>>

loadProject(projectId) ==
  /\ EditorShown
  /\ LET i == findProject(savedProjects, projectId)
     IN  IF i # 0
           THEN /\ placedSymbols' = savedProjects[i].symbols
                /\ pdfImages' = savedProjects[i].pdfImages
                /\ currentPage' = 0
                /\ selectedSymbolId' = NoId
                /\ zoomLevel' = RInt(1)
                /\ panOffset' = Px(0, 0)
           ELSE UNCHANGED <<placedSymbols, pdfImages, currentPage, selectedSymbolId,
                            zoomLevel, panOffset>>
  /\ UNCHANGED <<selectedFile, isProcessing, error, toolVars, isMouseOverPDF, isPanning,
                 lastPanPoint, lastPanScreen, lineVars, now, savedProjects>>

\* a project saved by an earlier session when symbols were placed directly:
\* its record has the old format, a bare position and no line; its ids are
\* values of Date.now() before this session's clock started
LegacyProject ==
  [id |-> -1,
   symbols |-> <<[id |-> -2, type |-> "shop_weld", page |-> 0,
                  x |-> RInt(40), y |-> RInt(30)]>>,
   pdfImages |-> 1]

\* what localStorage may hold when the application starts
StoredProjects == {<<>>, <<LegacyProject>>}

\* the effect at mount: setSavedProjects(JSON.parse(localStorage.getItem(...)))
loadSavedProjects(stored) ==
  /\ ~selectedFile /\ pdfImages = 0 /\ savedProjects = <<>>
  /\ savedProjects' = stored
  /\ UNCHANGED <<uploadVars, currentPage, storeVars, toolVars, zoomVars, panVars,
                 lineVars, now>>

(***************************************************************************)
(* Export.                                                                 *)
(***************************************************************************)
\* the canvas element's width and height
refW == 800
refH == 600

\* the scale of a page of the output, per axis
scaleX(pageW) == RDiv(RInt(pageW), RInt(refW))
scaleY(pageH) == RDiv(RInt(pageH), RInt(refH))

\* a faulty re-projection that keeps the top-left origin:
\* C14_ExportProjection must reject it
exportPointTopLeft(p, scale_x, scale_y, pdf_height) ==
  Pt(RMul(p.x, scale_x), RMul(p.y, scale_y))

\* x * scale_x, pdf_height - (y * scale_y)
exportPoint(p, scale_x, scale_y, pdf_height) ==
  Pt(RMul(p.x, scale_x), RSub(RInt(pdf_height), RMul(p.y, scale_y)))

\* exportPDF posts the whole store; the export places every annotation on its
\* page, whose size is pageSize = <<pageW, pageH>>
exportPDF(pageSize) ==
  /\ EditorShown
  /\ exported' =
       [i \in DOMAIN placedSymbols |->
          [logical |-> placedSymbols[i].symbolPosition,
           pageW |-> pageSize[1],
           pageH |-> pageSize[2],
           out |-> exportPoint(placedSymbols[i].symbolPosition,
                               scaleX(pageSize[1]), scaleY(pageSize[2]), pageSize[2])]]
  /\ UNCHANGED <<uploadVars, currentPage, storeVars, toolVars, zoomVars, panVars,
                 lineVars, now, savedProjects>>

(***************************************************************************)
(* The specifications.  Every action above is a handler as the code has it; *)
(* a specification chooses the handlers it runs and how many counted       *)
(* changes one behaviour makes.                                            *)
(***************************************************************************)
Counted(max) == changes < max /\ changes' = changes + 1 /\ UNCHANGED <<exported, pointer>>
Free == UNCHANGED <<changes, exported, pointer>>

\* the palette buttons pressed in the editor
PaletteTypes == {"field_weld", "pipe_section", "flange_joint"}

\* where the editor's pan gesture starts
PanStartPoints == {Px(0, 0)}

Upload ==
  \/ handleFileSelect(TRUE) /\ Free
  \/ handleUpload /\ Free
  \/ handleUploadOk(MaxPages) /\ Free

\* The editor: the store, the tools, the pages and the canvas gestures.
Next ==
  \/ Upload
  \/ Tick /\ Counted(MaxChanges)
  \/ zoomButtonMinus /\ Counted(MaxChanges)
  \/ zoomButtonPlus /\ Counted(MaxChanges)
  \/ resetZoom /\ Free
  \/ clearAllSymbols /\ Free
  \/ \E i \in 1..MaxSymbols : removeButton(i) /\ Free
  \/ \E i \in 1..MaxSymbols : selectButton(i) /\ Free
  \/ \E key \in Keys : handleKeyDown(key) /\ Free
  \/ toggleDrawingMode /\ Counted(MaxChanges)
  \/ \E type \in PaletteTypes : setSelectedSymbolType(type) /\ Counted(MaxChanges)
  \/ previousPage /\ Free
  \/ nextPage /\ Counted(MaxChanges)
  \/ \E raw \in RawPoints, ctrl \in BOOLEAN : handleCanvasClick(raw, ctrl) /\ Free
  \/ \E raw \in RawPoints : handleMouseDown(raw, FALSE) /\ Free
  \/ \E raw \in PanStartPoints :
       changes < MaxChanges /\ handleMouseDown(raw, TRUE) /\ Free
  \/ \E raw \in RawPoints :
       /\ handleCanvasMouseMove(raw)
       /\ IF isPanning THEN Counted(MaxChanges) ELSE Free
  \/ \E raw \in RawPoints :
       /\ commits(raw) => Len(placedSymbols) < MaxSymbols
       /\ handleCanvasMouseUp(raw)
       /\ Free

Spec == Init /\ [][Next]_vars

\* The zoom controls alone.
NextZoom ==
  \/ Upload
  \/ zoomIn /\ Counted(MaxZoomSteps)
  \/ zoomOut /\ Counted(MaxZoomSteps)
  \/ zoomButtonMinus /\ Counted(MaxZoomSteps)
  \/ zoomButtonPlus /\ Counted(MaxZoomSteps)
  \/ \E deltaPositive \in BOOLEAN : handleWheel(deltaPositive) /\ Counted(MaxZoomSteps)
  \/ handleWheelOutside /\ Free
  \/ handlePDFMouseEnter /\ Free
  \/ handlePDFMouseLeave /\ Free
  \/ resetZoom /\ Free
  \/ Len(savedProjects) < MaxProjects /\ saveProject /\ Free
  \/ \E i \in 1..MaxProjects :
       i <= Len(savedProjects) /\ loadProject(savedProjects[i].id) /\ Free

SpecZoom == Init /\ [][NextZoom]_vars

\* The pan gesture under the zoom buttons.
NextPan ==
  \/ Upload
  \/ zoomButtonMinus /\ Counted(MaxPanSteps)
  \/ zoomButtonPlus /\ Counted(MaxPanSteps)
  \/ resetZoom /\ Free
  \/ \E raw \in RawPoints, ctrl \in BOOLEAN : handleMouseDown(raw, ctrl) /\ Free
  \/ \E raw \in RawPoints :
       /\ isPanning
       /\ handleCanvasMouseMove(raw)
       /\ Counted(MaxPanSteps)
  \/ \E raw \in RawPoints : isPanning /\ handleCanvasMouseUp(raw) /\ Free

SpecPan == Init /\ [][NextPan]_vars

\* where the lines of the project behaviours start and end
ProjectLineStarts == {Px(0, 0)}
ProjectLineEnds == {Px(40, 30)}

\* Saving and loading projects around edits of the store and of the view.
NextProject ==
  \/ \E stored \in StoredProjects : loadSavedProjects(stored) /\ Free
  \/ Upload
  \/ Tick /\ Counted(MaxProjectSteps)
  \/ zoomButtonPlus /\ Counted(MaxProjectSteps)
  \/ nextPage /\ Counted(MaxProjectSteps)
  \/ \E i \in 1..MaxSymbols : selectButton(i) /\ Free
  \/ \E i \in 1..MaxSymbols : removeButton(i) /\ Free
  \/ clearAllSymbols /\ Free
  \/ \E key \in Keys : handleKeyDown(key) /\ Free
  \/ \E raw \in ProjectLineStarts : handleCanvasClick(raw, FALSE) /\ Free
  \/ \E raw \in ProjectLineEnds :
       /\ commits(raw) => Len(placedSymbols) < MaxSymbols
       /\ handleCanvasMouseUp(raw)
       /\ Free
  \/ \E raw \in PanStartPoints :
       changes < MaxProjectSteps /\ handleMouseDown(raw, TRUE) /\ Free
  \/ \E raw \in ProjectLineEnds :
       isPanning /\ handleCanvasMouseMove(raw) /\ Counted(MaxProjectSteps)
  \/ Len(savedProjects) < MaxProjects /\ saveProject /\ Free
  \/ \E i \in 1..MaxProjects :
       i <= Len(savedProjects) /\ loadProject(savedProjects[i].id) /\ Free

SpecProject == Init /\ [][NextProject]_vars

\* the most counted changes (zoom requests, pan moves) in one behaviour of the
\* view operations
MaxViewSteps == 2

\* The view operations over a store, a selection and a page.
NextView ==
  \/ Upload
  \/ nextPage /\ Free
  \/ \E raw \in ProjectLineStarts : handleCanvasClick(raw, FALSE) /\ Free
  \/ \E raw \in ProjectLineEnds :
       /\ ~isPanning
       /\ commits(raw) => Len(placedSymbols) < MaxSymbols
       /\ handleCanvasMouseUp(raw)
       /\ Free
  \/ \E i \in 1..MaxSymbols : selectButton(i) /\ Free
  \/ zoomIn /\ Counted(MaxViewSteps)
  \/ zoomOut /\ Counted(MaxViewSteps)
  \/ zoomButtonMinus /\ Counted(MaxViewSteps)
  \/ zoomButtonPlus /\ Counted(MaxViewSteps)
  \/ \E deltaPositive \in BOOLEAN : handleWheel(deltaPositive) /\ Counted(MaxViewSteps)
  \/ handleWheelOutside /\ Free
  \/ handlePDFMouseEnter /\ Free
  \/ handlePDFMouseLeave /\ Free
  \/ resetZoom /\ Free
  \/ \E raw \in PanStartPoints :
       changes < MaxViewSteps /\ handleMouseDown(raw, TRUE) /\ Free
  \/ \E raw \in ProjectLineEnds :
       isPanning /\ handleCanvasMouseMove(raw) /\ Counted(MaxViewSteps)
  \/ \E raw \in ProjectLineEnds : isPanning /\ handleCanvasMouseUp(raw) /\ Free

SpecView == Init /\ [][NextView]_vars

\* where the symbols of the connection behaviours are placed
ConnectCentre == Px(100, 100)

\* where their lines start: on the axes, on the diagonals and between them
ConnectStarts ==
  {Px(0, 100), Px(200, 100), Px(100, 0), Px(100, 200),
   Px(0, 0), Px(200, 0), Px(0, 200), Px(200, 200),
   Px(0, 60), Px(60, 0), Px(200, 140), Px(140, 200)}

\* the kinds drawn as rectangles
PipeTypes == {"pipe_section", "pipe_support"}

\* Lines drawn towards one symbol position from every side.
NextConnect ==
  \/ Upload
  \/ \E type \in PipeTypes : setSelectedSymbolType(type) /\ Free
  \/ \E raw \in ConnectStarts : handleCanvasClick(raw, FALSE) /\ Free
  \/ /\ commits(ConnectCentre) => Len(placedSymbols) < MaxSymbols
     /\ handleCanvasMouseUp(ConnectCentre)
     /\ Free
  \/ \E i \in 1..MaxSymbols : removeButton(i) /\ Free

SpecConnect == Init /\ [][NextConnect]_vars

\* the most zoom requests in one behaviour of the uploads
MaxUploadSteps == 2

\* Uploads that fail or succeed, and the editing that follows a success.
NextUpload ==
  \/ handleFileSelect(TRUE) /\ Free
  \/ handleUpload /\ Free
  \/ \E images \in 1..MaxPages : handleUploadOk(images) /\ Free
  \/ handleUploadFailed /\ Free
  \/ zoomButtonPlus /\ Counted(MaxUploadSteps)
  \/ nextPage /\ Free
  \/ \E raw \in ProjectLineStarts : handleCanvasClick(raw, FALSE) /\ Free
  \/ \E raw \in ProjectLineEnds :
       /\ commits(raw) => Len(placedSymbols) < MaxSymbols
       /\ handleCanvasMouseUp(raw)
       /\ Free
  \/ \E i \in 1..MaxSymbols : selectButton(i) /\ Free

SpecUpload == Init /\ [][NextUpload]_vars

\* the most clock ticks in one behaviour of the keyboard
MaxKeySteps == 1

\* The keyboard over a store with a selection, with a line in progress or a
\* pan active.
NextKeys ==
  \/ Upload
  \/ Tick /\ Counted(MaxKeySteps)
  \/ \E raw \in ProjectLineStarts : handleCanvasClick(raw, FALSE) /\ Free
  \/ \E raw \in ProjectLineEnds :
       /\ commits(raw) => Len(placedSymbols) < MaxSymbols
       /\ handleCanvasMouseUp(raw)
       /\ Free
  \/ \E i \in 1..MaxSymbols : selectButton(i) /\ Free
  \/ \E key \in Keys : handleKeyDown(key) /\ Free
  \/ \E raw \in PanStartPoints : handleMouseDown(raw, TRUE) /\ Free
  \/ \E raw \in ProjectLineEnds : ~isPanning /\ handleCanvasMouseMove(raw) /\ Free
  \/ nextPage /\ Free

SpecKeys == Init /\ [][NextKeys]_vars

\* the most counted changes (pan moves, mode switches) in one behaviour of the
\* canvas gestures
MaxGestureSteps == 2

\* where the pointer is pressed, moved and released in the canvas gestures
GesturePoints == {Px(0, 0), Px(40, 30)}

\* The canvas receives mousedown, then mouseup, then click at the point and
\* with the modifier of the mouseup; mousemove comes before or after the three
\* but not between mouseup and click.  pointer.pressed is the point of the
\* mousedown and pointer.idlePress tells that it came without a modifier, with
\* no line in progress and no pan, on a point that hits no annotation of the
\* current page.
PointerDown(raw, ctrl) ==
  /\ pointer.stage = "up"
  /\ handleMouseDown(raw, ctrl)
  /\ pointer' = [stage |-> "down", raw |-> raw, ctrl |-> ctrl, committed |-> FALSE,
                 pressed |-> raw,
                 idlePress |-> /\ ~ctrl
                               /\ ~isDrawingLine
                               /\ ~isPanning
                               /\ findClicked(currentPageSymbols, getCanvasCoordinates(raw)) = 0]

PointerMove(raw) ==
  /\ pointer.stage # "click"
  /\ handleCanvasMouseMove(raw)
  /\ UNCHANGED pointer

PointerUp(raw, ctrl) ==
  /\ pointer.stage = "down"
  /\ handleCanvasMouseUp(raw)
  /\ pointer' = [pointer EXCEPT !.stage = "click", !.raw = raw, !.ctrl = ctrl,
                                 !.committed = commits(raw)]

\* the button is released outside the canvas: the canvas gets no mouseup and
\* no click, and no other mouseup listener is registered
PointerUpOutside ==
  /\ pointer.stage = "down"
  /\ EditorShown
  /\ canvasFrame
  /\ UNCHANGED <<panVars, storeVars, lineVars>>
  /\ pointer' = [pointer EXCEPT !.stage = "up"]

PointerClick ==
  /\ pointer.stage = "click"
  /\ handleCanvasClick(pointer.raw, pointer.ctrl)
  /\ pointer' = [pointer EXCEPT !.stage = "up"]

\* The canvas gestures in the order the browser delivers their events.
NextGesture ==
  \/ Upload
  \/ toggleDrawingMode /\ Counted(MaxGestureSteps)
  \/ \E raw \in GesturePoints, ctrl \in BOOLEAN : PointerDown(raw, ctrl) /\ UNCHANGED <<changes, exported>>
  \/ \E raw \in GesturePoints :
       /\ PointerMove(raw)
       /\ IF isPanning
            THEN changes < MaxGestureSteps /\ changes' = changes + 1 /\ UNCHANGED exported
            ELSE UNCHANGED <<changes, exported>>
  \/ \E raw \in GesturePoints, ctrl \in BOOLEAN :
       /\ commits(raw) => Len(placedSymbols) < MaxSymbols
       /\ PointerUp(raw, ctrl)
       /\ UNCHANGED <<changes, exported>>
  \/ PointerClick /\ UNCHANGED <<changes, exported>>
  \/ PointerUpOutside /\ UNCHANGED <<changes, exported>>

SpecGesture == Init /\ [][NextGesture]_vars

\* the bound on the zoom requests of the export behaviours
MaxExportSteps == 1

\* the pointer positions of the export behaviours: the corners of the canvas
\* and a point inside it
ExportRawPoints == {Px(0, 0), Px(40, 30), Px(800, 600)}

\* the sizes of the output pages
PageSizes == {<<1600, 1200>>, <<800, 1200>>}

\* Drawing annotations and exporting them.
NextExport ==
  \/ Upload
  \/ zoomButtonPlus /\ Counted(MaxExportSteps)
  \/ \E raw \in ExportRawPoints : handleCanvasClick(raw, FALSE) /\ Free
  \/ \E raw \in ExportRawPoints :
       /\ commits(raw) => Len(placedSymbols) < MaxSymbols
       /\ handleCanvasMouseUp(raw)
       /\ Free
  \/ \E pageSize \in PageSizes : exportPDF(pageSize) /\ UNCHANGED <<changes, pointer>>

SpecExport == Init /\ [][NextExport]_vars

(***************************************************************************)
(* Helpers of the properties.                                              *)
(***************************************************************************)
\* a is b with some of its elements left out, the rest in the same order
RECURSIVE IsSubSeq(_, _)
IsSubSeq(a, b) ==
  IF a = <<>> THEN TRUE
  ELSE IF b = <<>> THEN FALSE
  ELSE IF Head(a) = Head(b) THEN IsSubSeq(Tail(a), Tail(b))
  ELSE IsSubSeq(a, Tail(b))

HasLine(a) == a.lineStart # Null /\ a.lineEnd # Null

Pages == 0..(MaxPages - 1)

\* the machine is in DrawingLine (and is not panning)
InDrawingLine == isDrawingLine /\ lineStart # Null /\ ~isPanning

Origin == Px(0, 0)

ZoomInRange == RLeq(ZoomMin, zoomLevel) /\ RLeq(zoomLevel, ZoomMax)

(***************************************************************************)
(* The claims.                                                             *)
(***************************************************************************)

\* C1: in every reachable state, every stored annotation that has a line has
\* lineEnd = getShapeConnectionPoint(lineStart, symbolPosition, type), and its
\* lineEnd is not symbolPosition itself.
C1_LineEndIsConnectionPoint ==
  \A i \in DOMAIN placedSymbols :
    LET a == placedSymbols[i]
    IN  HasLine(a) =>
          /\ a.lineEnd = getShapeConnectionPoint(a.lineStart, a.symbolPosition, a.type)
          /\ a.lineEnd # a.symbolPosition

\* a line was committed under a view that is not the initial one, and a line
\* was committed to a pipe symbol
C1_Witness ==
  \E i \in DOMAIN placedSymbols :
    /\ HasLine(placedSymbols[i])
    /\ \/ zoomLevel # RInt(1) /\ placedSymbols[i].lineStart \notin RawPoints
       \/ placedSymbols[i].type = "pipe_section"

C3_IdsStrictlyIncreasing ==
  \A i, j \in DOMAIN placedSymbols :
    i < j => placedSymbols[i].id < placedSymbols[j].id

\* C4: removeSymbol(id) deletes the records with that id and no other record,
\* keeps the order of the others, changes nothing when no record has the id,
\* and clears the selection; a second removal of the same id changes nothing.
C4_RemovalEffect(symbolId) ==
  /\ \A k \in DOMAIN placedSymbols' : placedSymbols'[k].id # symbolId
  /\ Len(placedSymbols') =
       Cardinality({k \in DOMAIN placedSymbols : placedSymbols[k].id # symbolId})
  /\ IsSubSeq(placedSymbols', placedSymbols)
  /\ selectedSymbolId' = NoId

C4_RemoveOnlyThatId ==
  [][/\ \A i \in 1..MaxSymbols :
          removeButton(i) => C4_RemovalEffect(currentPageSymbols[i].id)
     /\ (selectedSymbolId # NoId /\ handleKeyDown("Delete")) =>
          C4_RemovalEffect(selectedSymbolId)
     /\ \A symbolId \in 1..MaxClock :
          LET once == withoutId(placedSymbols, symbolId)
          IN  /\ withoutId(once, symbolId) = once
              /\ (\A k \in DOMAIN placedSymbols : placedSymbols[k].id # symbolId)
                   => once = placedSymbols]_vars

\* two annotations with different ids are stored, one of them selected, and
\* the Delete key removes that one and leaves the other
C4_Witness ==
  /\ Len(placedSymbols) = 2
  /\ placedSymbols[1].id # placedSymbols[2].id
  /\ selectedSymbolId = placedSymbols[1].id
  /\ ENABLED (handleKeyDown("Delete") /\ placedSymbols' = <<placedSymbols[2]>>)

\* C5: for every page p, the page's annotation list holds exactly the stored
\* annotations whose page is p, each once, in the order of the store, and the
\* store is in insertion order: a creation appends at its end.
C5_PageQuery ==
  [][/\ \A p \in Pages :
          LET q == SymbolsOfPage(placedSymbols, p)
          IN  /\ \A k \in DOMAIN q : q[k].page = p
              /\ Len(q) = Cardinality({i \in DOMAIN placedSymbols : placedSymbols[i].page = p})
              /\ IsSubSeq(q, placedSymbols)
     /\ currentPageSymbols = SymbolsOfPage(placedSymbols, currentPage)
     /\ Len(placedSymbols') > Len(placedSymbols) =>
          SubSeq(placedSymbols', 1, Len(placedSymbols)) = placedSymbols]_vars

\* the store holds an annotation of page 0 and one of page 1
C5_Witness ==
  /\ Len(placedSymbols) = 2
  /\ placedSymbols[1].page # placedSymbols[2].page
  /\ currentPageSymbols = <<placedSymbols[2]>>

\* C6: clearAllSymbols removes every annotation of the current page and leaves
\* the annotations of every other page in the store, unchanged and in order.
C6_ClearCurrentPageOnly ==
  [][clearAllSymbols =>
       /\ SymbolsOfPage(placedSymbols', currentPage) = <<>>
       /\ \A p \in Pages \ {currentPage} :
            SymbolsOfPage(placedSymbols', p) = SymbolsOfPage(placedSymbols, p)
       /\ IsSubSeq(placedSymbols', placedSymbols)]_vars

\* both pages hold an annotation and the clear button leaves the other page's
C6_Witness ==
  /\ currentPageSymbols # <<>>
  /\ \E i \in DOMAIN placedSymbols : placedSymbols[i].page # currentPage
  /\ ENABLED (clearAllSymbols /\ placedSymbols' # <<>>)

\* the last record of the current page that the point hits, 0 if none
lastClicked(symbols, p) ==
  LET hits == {i \in DOMAIN symbols : isHit(symbols[i], p)}
  IN  IF hits = {} THEN 0 ELSE CHOOSE i \in hits : \A j \in hits : j <= i

\* C7: a click within tolerance of several annotations of the current page
\* selects (in remove mode: removes) the most recently created of them.
C7_MostRecentWins ==
  [][\A raw \in RawPoints :
       LET p == getCanvasCoordinates(raw)
           hits == {i \in DOMAIN currentPageSymbols : isHit(currentPageSymbols[i], p)}
           last == currentPageSymbols[lastClicked(currentPageSymbols, p)]
       IN  (~isPanning /\ Cardinality(hits) > 1 /\ handleCanvasClick(raw, FALSE)) =>
             IF isDrawingMode
               THEN \A k \in DOMAIN placedSymbols' : placedSymbols'[k] # last
               ELSE selectedSymbolId' = last.id]_vars

\* C8: zoomLevel is always in [0.2, 5.0]; each zoom request multiplies it by
\* its factor and a result outside the range becomes the nearer bound.
Clamped(z) == IF RLess(ZoomMax, z) THEN ZoomMax ELSE IF RLess(z, ZoomMin) THEN ZoomMin ELSE z

C8_ZoomClamped ==
  [][/\ ZoomInRange
     /\ ZoomInRange'
     /\ zoomIn => zoomLevel' = Clamped(RMul(zoomLevel, <<3, 2>>))
     /\ zoomOut => zoomLevel' = Clamped(RMul(zoomLevel, <<2, 3>>))
     /\ zoomButtonPlus => zoomLevel' = Clamped(RMul(zoomLevel, <<6, 5>>))
     /\ zoomButtonMinus => zoomLevel' = Clamped(RMul(zoomLevel, <<4, 5>>))
     /\ handleWheel(TRUE) => zoomLevel' = Clamped(RMul(zoomLevel, <<9, 10>>))
     /\ handleWheel(FALSE) => zoomLevel' = Clamped(RMul(zoomLevel, <<11, 10>>))
     /\ resetZoom => zoomLevel' = RInt(1)
     /\ handleUploadOk(MaxPages) => zoomLevel' = RInt(1)
     /\ \A i \in DOMAIN savedProjects :
          loadProject(savedProjects[i].id) => zoomLevel' = RInt(1)]_vars

\* a zoom request has been clamped: no product of the factors is 5 or 1/5
C8_Witness == zoomLevel = ZoomMax \/ zoomLevel = ZoomMin

\* C9: while panning, a pointer move from the screen point of the previous pan
\* event to a new screen point changes panOffset by their difference.
C9_PanByScreenDelta ==
  [][\A raw \in RawPoints :
       (isPanning /\ handleCanvasMouseMove(raw)) =>
         panOffset' = Pt(RAdd(panOffset.x, RSub(raw.x, lastPanScreen.x)),
                         RAdd(panOffset.y, RSub(raw.y, lastPanScreen.y)))]_vars

\* the logical points of the round trip
LogicalPoints == RawPoints \cup {Pt(<<1, 3>>, <<-7, 2>>), Pt(<<-800, 1>>, <<600, 7>>)}

\* C10: a logical point taken to the screen by the render transform and back
\* by getCanvasCoordinates is the point itself.
C10_RoundTrip == \A p \in LogicalPoints : getCanvasCoordinates(toScreen(p)) = p

\* the view is zoomed and panned
C10_Witness ==
  /\ zoomLevel # RInt(1)
  /\ panOffset.x # RInt(0)
  /\ panOffset.y # RInt(0)
  /\ \E p \in LogicalPoints : toScreen(p) # p

\* the view, the selection and the page as a load leaves them
ViewReset ==
  /\ zoomLevel = RInt(1)
  /\ panOffset = Px(0, 0)
  /\ selectedSymbolId = NoId
  /\ currentPage = 0

\* C11: a successful upload leaves zoomLevel = 1, panOffset = (0,0), no
\* selection, page 0 and an empty store; loadProject leaves the same view and
\* a store that is exactly the annotations of the project it found, with no
\* record of the previous store added to them.
C11_LoadResets ==
  [][/\ handleUploadOk(MaxPages) => ViewReset' /\ placedSymbols' = <<>>
     /\ \A i \in DOMAIN savedProjects :
          loadProject(savedProjects[i].id) =>
            /\ ViewReset'
            /\ placedSymbols' =
                 savedProjects[findProject(savedProjects, savedProjects[i].id)].symbols]_vars

\* a store, a selection and a changed view that a load is about to discard
C11_Witness ==
  /\ placedSymbols # <<>>
  /\ selectedSymbolId # NoId
  /\ zoomLevel # RInt(1) \/ panOffset # Px(0, 0) \/ currentPage # 0
  /\ \E i \in DOMAIN savedProjects :
       ENABLED (loadProject(savedProjects[i].id) /\ placedSymbols' # placedSymbols)

\* C12: saving the store as a project and later loading that project, after
\* any edits in between, restores the store as it was at the save: the save
\* records the store, nothing changes a saved project afterwards, and loading
\* the i-th saved project makes the store the one recorded in it.
C12_SaveLoadRoundTrip ==
  [][/\ saveProject =>
          /\ savedProjects'[Len(savedProjects')].symbols = placedSymbols
          /\ SubSeq(savedProjects', 1, Len(savedProjects)) = savedProjects
     /\ savedProjects = <<>> \/ IsSubSeq(savedProjects, savedProjects')
     /\ \A i \in DOMAIN savedProjects :
          loadProject(savedProjects[i].id) =>
            placedSymbols' = savedProjects[i].symbols]_vars

\* C13: for every kind, the end of a stored line is on the outline drawn for
\* the symbol: it touches the stroke, neither short of it nor inside the shape.
C13_LineEndsOnOutline ==
  \A i \in DOMAIN placedSymbols :
    LET a == placedSymbols[i]
    IN  HasLine(a) => onOutline(a.type, a.symbolPosition, a.lineEnd)

\* C14: the export maps a logical point (x, y) to (x * pageW/refW,
\* pageH - y * pageH/refH), each axis with its own scale; on a 1600 x 1200
\* page (0,0) goes to (0,1200) and (800,600) to (1600,0).
C14_ExportProjection ==
  \A i \in DOMAIN exported :
    LET e == exported[i]
    IN  /\ RMul(e.out.x, RInt(refW)) = RMul(e.logical.x, RInt(e.pageW))
        /\ RMul(RSub(RInt(e.pageH), e.out.y), RInt(refH)) = RMul(e.logical.y, RInt(e.pageH))
        /\ (e.pageW = 1600 /\ e.pageH = 1200 /\ e.logical = Px(0, 0))
             => e.out = Px(0, 1200)
        /\ (e.pageW = 1600 /\ e.pageH = 1200 /\ e.logical = Px(800, 600))
             => e.out = Px(1600, 0)

\* both corners were exported to a 1600 x 1200 page, and a point was exported
\* to a page whose axes scale differently
C14_Witness ==
  /\ \E i, j \in DOMAIN exported :
       /\ exported[i].pageW = 1600
       /\ exported[i].logical = Px(0, 0)
       /\ exported[j].logical = Px(800, 600)
  /\ ENABLED (exportPDF(<<800, 1200>>) /\ exported' # exported)

\* kinds outside the catalog
UnknownKinds == {"valve"}

\* C15: every stored annotation has a kind of the catalog, and a kind outside
\* the catalog is given no geometry of a catalog kind: for the line being
\* drawn, its connection point is not the connection point of any known kind.
C15_UnknownKindRejected ==
  /\ \A i \in DOMAIN placedSymbols : placedSymbols[i].type \in SymbolTypes
  /\ (InDrawingLine /\ isLongEnough(lineStart, currentLineEnd)) =>
       \A kind \in UnknownKinds, known \in SymbolTypes :
         getShapeConnectionPoint(lineStart, currentLineEnd, kind)
           # getShapeConnectionPoint(lineStart, currentLineEnd, known)

\* the record has the field and it is not null
Present(a, field) == field \in DOMAIN a /\ a[field] # Null

\* C16: every stored annotation has symbolPosition set and has lineStart and
\* lineEnd both or neither; a record that enters the store in the old format
\* (a bare position) is stored with symbolPosition set.
C16_CanonicalShape ==
  \A i \in DOMAIN placedSymbols :
    LET a == placedSymbols[i]
    IN  /\ Present(a, "symbolPosition")
        /\ Present(a, "lineStart") <=> Present(a, "lineEnd")

\* a step of a view operation: a zoom request, a wheel event, a reset, or a
\* press, move or release of the pan gesture
ViewOperation ==
  \/ zoomIn \/ zoomOut \/ zoomButtonMinus \/ zoomButtonPlus \/ resetZoom
  \/ handleWheelOutside
  \/ \E deltaPositive \in BOOLEAN : handleWheel(deltaPositive)
  \/ \E raw \in RawPoints : handleMouseDown(raw, TRUE)
  \/ \E raw \in RawPoints : isPanning /\ handleCanvasMouseMove(raw)
  \/ \E raw \in RawPoints : isPanning /\ handleCanvasMouseUp(raw)

\* C17: a view operation changes at most zoomLevel, panOffset and the pan
\* bookkeeping (isPanning, lastPanPoint); the store, the selection, the
\* current page and everything else stay as they were.
C17_ViewFrame ==
  [][ViewOperation =>
       /\ UNCHANGED <<placedSymbols, selectedSymbolId, currentPage>>
       /\ UNCHANGED <<uploadVars, toolVars, lineVars, isMouseOverPDF, savedProjects,
                      exported>>]_vars

\* view operations have changed zoom and pan over a store with a selection,
\* on a page other than the first
C17_Witness ==
  /\ placedSymbols # <<>>
  /\ selectedSymbolId # NoId
  /\ currentPage # 0
  /\ zoomLevel # RInt(1)
  /\ panOffset # Px(0, 0)

\* a wheel event, wherever the pointer is
WheelEvent == handleWheelOutside \/ \E deltaPositive \in BOOLEAN : handleWheel(deltaPositive)

\* C18: a wheel event changes zoomLevel only while the pointer is over the PDF
\* editor area, that is after it has entered the area and not left it since
\* (isMouseOverPDF is set by the enter event, cleared by the leave event and
\* touched by nothing else); a wheel event outside leaves zoomLevel unchanged.
C18_WheelOverPDFOnly ==
  [][/\ (WheelEvent /\ zoomLevel' # zoomLevel) => isMouseOverPDF
     /\ (WheelEvent /\ ~isMouseOverPDF) => zoomLevel' = zoomLevel
     /\ handlePDFMouseEnter => isMouseOverPDF'
     /\ handlePDFMouseLeave => ~isMouseOverPDF'
     /\ ~(handlePDFMouseEnter \/ handlePDFMouseLeave) => UNCHANGED isMouseOverPDF]_vars

\* the wheel has zoomed in once over the area and the pointer has left it: the
\* next wheel event is one outside the area
C18_Witness ==
  /\ ~isMouseOverPDF
  /\ zoomLevel = WheelUpFactor
  /\ ENABLED handleWheelOutside

\* C19: the interaction is in at most one of DrawingLine and Panning:
\* isDrawingLine and isPanning are never both true.
C19_DrawingPanningExclusive == ~(isDrawingLine /\ isPanning)

\* C20: a release in DrawingLine with length > 10 appends exactly one
\* annotation at the end of the store, with the type selected at release, the
\* current page, symbolPosition the release point and lineStart the captured
\* start, and leaves the earlier records unchanged; once the gesture's events
\* (the release and the click that follows it) have all been handled, the
\* machine is Idle with the preview cleared and no selection.
C20_ReleaseCommits ==
  [][/\ \A raw \in GesturePoints, ctrl \in BOOLEAN :
          (PointerUp(raw, ctrl) /\ commits(raw)) =>
            /\ Len(placedSymbols') = Len(placedSymbols) + 1
            /\ SubSeq(placedSymbols', 1, Len(placedSymbols)) = placedSymbols
            /\ LET a == placedSymbols'[Len(placedSymbols')]
               IN  /\ a.type = selectedSymbolType
                   /\ a.page = currentPage
                   /\ a.symbolPosition = getCanvasCoordinates(raw)
                   /\ a.lineStart = lineStart
     /\ (PointerClick /\ pointer.committed) =>
          /\ ~isDrawingLine'
          /\ ~isPanning'
          /\ previewLine' = Null
          /\ selectedSymbolId' = NoId]_vars

\* C21: in Idle, a press without a modifier on a point within tolerance of no
\* annotation of the current page always leads to DrawingLine: once the
\* events of the press have been handled, isDrawingLine is true, lineStart is
\* the logical point of the press and the preview starts and ends there.
C21_PressStartsLine ==
  [][(PointerClick /\ pointer.idlePress) =>
       LET p == getCanvasCoordinates(pointer.pressed)
       IN  /\ isDrawingLine'
           /\ lineStart' = p
           /\ previewLine' = [start |-> p, end |-> p]]_vars

\* the interaction is neither drawing a line nor panning
Idle == ~isDrawingLine /\ ~isPanning

\* C22: in Idle, a press without a modifier on an existing annotation of the
\* current page (the one the hit test designates: the most recent within
\* tolerance) never starts a line: in remove mode that annotation is deleted,
\* otherwise selectedId becomes its id and the store is unchanged; the machine
\* stays Idle.
C22_PressOnAnnotation ==
  [][\A raw \in RawPoints :
       LET p == getCanvasCoordinates(raw)
           k == lastClicked(currentPageSymbols, p)
           a == currentPageSymbols[k]
       IN  (Idle /\ k # 0 /\ handleCanvasClick(raw, FALSE)) =>
             /\ Idle'
             /\ UNCHANGED lineVars
             /\ IF isDrawingMode
                  THEN /\ \A i \in DOMAIN placedSymbols' : placedSymbols'[i] # a
                       /\ IsSubSeq(placedSymbols', placedSymbols)
                  ELSE /\ selectedSymbolId' = a.id
                       /\ UNCHANGED placedSymbols]_vars

\* C23: selectedId is set to an annotation id (from null or from another id)
\* only while the machine is Idle: no step taken while a line is being drawn
\* or a pan is active sets it to a non-null value.
C23_SelectOnlyInIdle ==
  [][(selectedSymbolId' # selectedSymbolId /\ selectedSymbolId' # NoId) => Idle]_vars

\* C24: in any interaction state, Delete or Backspace with a selection removes
\* exactly the annotation with the selected id and clears the selection, and
\* without a selection changes nothing; Escape clears the selection and
\* leaves the store unchanged.
C24_Keys ==
  [][/\ \A key \in {"Delete", "Backspace"} :
          handleKeyDown(key) =>
            IF selectedSymbolId # NoId
              THEN /\ C4_RemovalEffect(selectedSymbolId)
                   /\ UNCHANGED <<lineVars, panVars>>
              ELSE UNCHANGED vars
     /\ handleKeyDown("Escape") =>
          /\ selectedSymbolId' = NoId
          /\ UNCHANGED <<placedSymbols, lineVars, panVars>>]_vars

\* two annotations with different ids are stored and the first is selected
\* while a line is in progress and a pan is active: Delete removes the first
\* and keeps the second, Escape keeps both
C24_Witness ==
  /\ isDrawingLine
  /\ isPanning
  /\ Len(placedSymbols) = 2
  /\ placedSymbols[1].id # placedSymbols[2].id
  /\ selectedSymbolId = placedSymbols[1].id
  /\ ENABLED (handleKeyDown("Backspace") /\ placedSymbols' = <<placedSymbols[2]>>)
  /\ ENABLED (handleKeyDown("Escape") /\ placedSymbols' = placedSymbols)

\* a step of a pan gesture: the press with the modifier key, a move while
\* panning, the release that ends it
PanGestureStep ==
  \/ \E raw \in GesturePoints : PointerDown(raw, TRUE)
  \/ \E raw \in GesturePoints : isPanning /\ PointerMove(raw)
  \/ \E raw \in GesturePoints, ctrl \in BOOLEAN : isPanning /\ PointerUp(raw, ctrl)
  \/ isPanning /\ PointerUpOutside

\* C25: a pan ends at the release of the button that started it, wherever the
\* pointer is then: while the button is not held isPanning is false and a
\* pointer move does not change panOffset; and no step of a pan gesture adds,
\* removes or changes an annotation.
C25_PanEndsAtRelease ==
  [][/\ pointer'.stage # "down" => ~isPanning'
     /\ \A raw \in GesturePoints :
          (pointer.stage = "up" /\ PointerMove(raw)) => panOffset' = panOffset
     /\ PanGestureStep => placedSymbols' = placedSymbols]_vars

\* C26: for the two pipe kinds (width 39.2, height 19.6) and a lineStart
\* other than the centre, the line ends at the midpoint of the left or right
\* edge when the approach is within 45 degrees of horizontal and at the
\* midpoint of the top or bottom edge otherwise, on the side of the centre
\* where lineStart is.
C26_PipeEdge ==
  \A i \in DOMAIN placedSymbols :
    LET a == placedSymbols[i]
        c == a.symbolPosition
        s == a.lineStart
        e == a.lineEnd
        sideways == RLess(RAbs(RSub(s.y, c.y)), RAbs(RSub(s.x, c.x)))
    IN  (HasLine(a) /\ a.type \in PipeTypes /\ s # c) =>
          IF sideways
            THEN /\ e.y = c.y
                 /\ RAbs(RSub(e.x, c.x)) = <<98, 5>>
                 /\ RLess(e.x, c.x) <=> RLess(s.x, c.x)
            ELSE /\ e.x = c.x
                 /\ RAbs(RSub(e.y, c.y)) = <<49, 5>>
                 /\ RLess(e.y, c.y) <=> RLess(s.y, c.y)

\* a pipe symbol approached along a diagonal from above left is joined at the
\* middle of its top edge, and one approached from the right at the middle of
\* its right edge
C26_Witness ==
  /\ Len(placedSymbols) = 2
  /\ placedSymbols[1].type = "pipe_section"
  /\ placedSymbols[1].lineStart = Px(0, 0)
  /\ placedSymbols[1].lineEnd = Pt(RInt(100), <<451, 5>>)
  /\ placedSymbols[2].type = "pipe_support"
  /\ placedSymbols[2].lineStart = Px(200, 140)
  /\ placedSymbols[2].lineEnd = Pt(<<598, 5>>, RInt(100))

\* C27: selectedId is null or the id of an annotation in the store, whatever
\* commits, removals, page clears, keys, uploads and project loads came before.
C27_SelectionStored ==
  \/ selectedSymbolId = NoId
  \/ \E i \in DOMAIN placedSymbols : placedSymbols[i].id = selectedSymbolId

\* an annotation is selected and a saved project without it can be loaded
C27_Witness ==
  /\ selectedSymbolId # NoId
  /\ \E i \in DOMAIN savedProjects :
       /\ \A k \in DOMAIN savedProjects[i].symbols :
            savedProjects[i].symbols[k].id # selectedSymbolId
       /\ ENABLED loadProject(savedProjects[i].id)

\* the line-drawing fields agree with each other
LineFieldsCoherent ==
  /\ isDrawingLine <=> lineStart # Null
  /\ isDrawingLine <=> previewLine # Null
  /\ previewLine # Null => previewLine.start = lineStart

\* C28: isDrawingLine is true exactly when lineStart is non-null and exactly
\* when previewLine is non-null, and the preview starts at lineStart; a
\* pointer move in DrawingLine changes only the end point of the preview and
\* never the store.
C28_LineFields ==
  [][/\ LineFieldsCoherent
     /\ LineFieldsCoherent'
     /\ \A raw \in GesturePoints :
          (InDrawingLine /\ PointerMove(raw)) =>
            /\ previewLine' = [start |-> lineStart, end |-> getCanvasCoordinates(raw)]
            /\ currentLineEnd' = getCanvasCoordinates(raw)
            /\ UNCHANGED <<isDrawingLine, lineStart, storeVars, panVars, zoomVars,
                           currentPage, toolVars, uploadVars>>]_vars

\* a line is in progress and the pointer has moved away from its start
C28_Witness ==
  /\ InDrawingLine
  /\ previewLine.end # lineStart
  /\ placedSymbols # <<>>

\* C29: a line in progress does not survive a page change, a project load or
\* a document load, so that every committed annotation is stored on the page
\* and in the document where its lineStart was captured.
C29_LineEndsWithPage ==
  [][(\/ currentPage' # currentPage
      \/ \E i \in DOMAIN savedProjects : loadProject(savedProjects[i].id)
      \/ handleUploadOk(MaxPages))
       => /\ ~isDrawingLine'
          /\ lineStart' = Null
          /\ previewLine' = Null]_vars

\* C30: a failed upload leaves the page images, the store, the current page,
\* the selection, zoomLevel and panOffset unchanged and sets an error message;
\* after an upload has finished, failed or not, isProcessing is false.
C30_UploadFailure ==
  [][/\ handleUploadFailed =>
          /\ UNCHANGED <<pdfImages, placedSymbols, currentPage, selectedSymbolId,
                         zoomLevel, panOffset>>
          /\ error'
          /\ ~isProcessing'
     /\ \A images \in 1..MaxPages : handleUploadOk(images) => ~isProcessing']_vars

\* an upload has failed (nothing else sets the error in these behaviours): the
\* error is shown, no request is in flight and the upload screen is still
\* there for another try
C30_Witness ==
  /\ error
  /\ selectedFile
  /\ ~isProcessing
  /\ pdfImages = 0
  /\ ENABLED handleUpload

====
